---- MODULE Spec2Model ----
(***************************************************************************)
(* Model of scripts/generate_world_rank_calibration.py: the offline        *)
(* pipeline that calibrates 2PL items, simulates a population, estimates   *)
(* MAP abilities and builds the percentile -> theta quantile table.        *)
(*                                                                         *)
(* Python floats are modelled as binary fixed-point numbers with FracBits  *)
(* fractional bits (the integer n stands for n / 2^FracBits).  As with     *)
(* floats, every product and quotient is rounded to a representable value. *)
(***************************************************************************)
EXTENDS Integers, Naturals, Sequences, FiniteSets, TLC

\* ------------------------------------------------------------------------
\* Fixed-point arithmetic standing for Python's float arithmetic
\* ------------------------------------------------------------------------
FracBits == 2 * 12
HalfBase == 2^(FracBits \div 2)
One == HalfBase * HalfBase

Abs(x) == IF x < 0 THEN -x ELSE x
Sgn(x) == IF x < 0 THEN -1 ELSE 1
Min(x, y) == IF x < y THEN x ELSE y
Max(x, y) == IF x > y THEN x ELSE y

\* x * y for non-negative fixed-point x, y, rounded to nearest; the operands
\* are split in halves so that no intermediate exceeds 32 bits.
MulU(x, y) ==
    LET xh == x \div HalfBase
        xl == x % HalfBase
        yh == y \div HalfBase
        yl == y % HalfBase
        a == xh * yl
        c == xl * yh
        mid == (a % HalfBase) + (c % HalfBase) + ((xl * yl) \div HalfBase)
    IN  xh * yh + (a \div HalfBase) + (c \div HalfBase)
          + ((mid + HalfBase \div 2) \div HalfBase)

\* float multiplication x * y
FMul(x, y) == Sgn(x) * Sgn(y) * MulU(Abs(x), Abs(y))

\* the fractional digits (base 16) of r / y, for 0 <= r < y < 8.0
RECURSIVE DivDigits(_, _, _, _)
DivDigits(r, y, k, acc) ==
    IF k = 0 THEN acc + (IF 2 * r >= y THEN 1 ELSE 0)
    ELSE DivDigits((16 * r) % y, y, k - 1, 16 * acc + ((16 * r) \div y))

DivU(x, y) ==
    (x \div y) * One + DivDigits(x % y, y, FracBits \div 4, 0)

\* float division x / y (y # 0, |y| < 8.0)
FDiv(x, y) == Sgn(x) * Sgn(y) * DivU(Abs(x), Abs(y))

\* integer n as a float
Float(n) == n * One

\* the decimal num / den as a float literal, rounded to nearest
Dec(num, den) == Sgn(num) * DivU(Abs(num), den)

\* x / k for an integer k > 0, rounded to nearest
DivInt(x, k) == Sgn(x) * ((Abs(x) + k \div 2) \div k)

Ln2 == Dec(69314718, 10^8)
Pi == Dec(314159265, 10^8)

\* sum of the Taylor series of exp at r, from the term of order k on
RECURSIVE ExpSeries(_, _, _, _)
ExpSeries(r, k, term, acc) ==
    IF k > 12 \/ term = 0 THEN acc
    ELSE ExpSeries(r, k + 1, DivInt(FMul(term, r), k + 1), acc + term)

\* math.exp(t) for t <= 0: exp(t) = 2^(-n) * exp(r), t = r - n * ln 2;
\* below exp(-18) the result is under half a unit of the last place
ExpNeg(t) ==
    IF t < -Float(18) THEN 0
    ELSE LET n == (-t) \div Ln2
             r == t + n * Ln2
         IN  DivInt(ExpSeries(r, 0, One, 0), 2^n)

\* 2 * atanh(z) = 2 * (z + z^3/3 + z^5/5 + ...), from the term of order k on
RECURSIVE AtanhSeries(_, _, _, _)
AtanhSeries(zz, k, pow, acc) ==
    IF k > 17 \/ pow = 0 THEN acc
    ELSE AtanhSeries(zz, k + 2, FMul(pow, zz), acc + DivInt(2 * pow, k))

\* the n with 2^n <= x / One < 2^(n+1)
RECURSIVE Log2Floor(_, _)
Log2Floor(x, n) ==
    IF x >= 2 * One THEN Log2Floor(x \div 2, n + 1)
    ELSE IF x < One THEN Log2Floor(2 * x, n - 1)
    ELSE n

\* math.log(x) for x > 0: ln(x) = n * ln 2 + 2 * atanh((m - 1) / (m + 1)),
\* x = m * 2^n with 1 <= m < 2
Ln(x) ==
    LET n == Log2Floor(x, 0)
        m == IF n >= 0 THEN x \div 2^n ELSE x * 2^(-n)
        z == FDiv(m - One, m + One)
    IN  n * Ln2 + AtanhSeries(FMul(z, z), 1, z, 0)

\* digit-by-digit square root: the bits of v are consumed in pairs, from
\* pair k down to pair -FracBits/2 (the fractional zero bits)
RECURSIVE SqrtDigits(_, _, _, _)
SqrtDigits(v, k, root, rem) ==
    IF k < -(FracBits \div 2) THEN root
    ELSE LET pair == IF k >= 0 THEN (v \div 4^k) % 4 ELSE 0
             r == 4 * rem + pair
             t == 4 * root + 1
         IN  IF r >= t THEN SqrtDigits(v, k - 1, 2 * root + 1, r - t)
             ELSE SqrtDigits(v, k - 1, 2 * root, r)

\* math.sqrt(v) for v >= 0
Sqrt(v) == SqrtDigits(v, 15, 0, 0)

\* sum of the Taylor series of cos, from the term of order 2k on
RECURSIVE CosSeries(_, _, _, _)
CosSeries(xx, k, term, acc) ==
    IF k > 9 \/ term = 0 THEN acc
    ELSE CosSeries(xx, k + 1,
                   -DivInt(FMul(term, xx), (2 * k + 1) * (2 * k + 2)),
                   acc + term)

\* math.cos(x) for 0 <= x <= 2 * pi, reduced to [0, pi/2] by symmetry
Cos(x) ==
    LET y == IF x > Pi THEN 2 * Pi - x ELSE x
        w == IF 2 * y > Pi THEN Pi - y ELSE y
        c == CosSeries(FMul(w, w), 0, One, 0)
    IN  IF 2 * y > Pi THEN -c ELSE c

\* ------------------------------------------------------------------------
\* Numeric helpers of the script
\* ------------------------------------------------------------------------

\* 20-point Gauss-Hermite nodes and weights, in units of 2^-FracBits
HERMITE_X ==
    <<-90386931, -77236975, -66182158, -56167679, -46788402,
       -37832186, -29167823, -20704363, -12372756, -4116134,
       4116134, 12372756, 20704363, 29167823, 37832186,
       46788402, 56167679, 66182158, 77236975, 90386931 >>

HERMITE_W ==
    <<0, 0, 2, 131, 3831,
       54421, 416251, 1829005, 4809617, 7755162,
       7755162, 4809617, 1829005, 416251, 54421,
       3831, 131, 2, 0, 0 >>

\* 1.0 / (1.0 + math.exp(-x)).  For x < 0 the quotient is taken after
\* multiplying numerator and denominator by exp(x), because exp(-x) itself
\* is beyond the fixed-point range.
sigmoid(x) ==
    LET e == ExpNeg(-Abs(x))
    IN  IF x >= 0 THEN FDiv(One, One + e) ELSE FDiv(e, One + e)

clamp(value, low, high) == Min(high, Max(low, value))

\* math.log(p / (1.0 - p)), defined for 0 < p < 1
logit(p) == Ln(FDiv(p, One - p))

\* sqrt2 = math.sqrt(2.0), and math.sqrt(math.pi)
Sqrt2 == Sqrt(Float(2))
SqrtPi == Sqrt(Pi)

\* theta = sqrt2 * x at each node
HermiteTheta == [k \in 1..Len(HERMITE_X) |-> FMul(Sqrt2, HERMITE_X[k])]

\* total after the terms w * sigmoid(a * (theta - b)) of nodes k..20
RECURSIVE HermiteSum(_, _, _, _)
HermiteSum(a, b, k, total) ==
    IF k > Len(HERMITE_X) THEN total
    ELSE HermiteSum(a, b, k + 1,
                    total + FMul(HERMITE_W[k], sigmoid(FMul(a, HermiteTheta[k] - b))))

\* E_theta[sigmoid(a * (theta - b))] for theta ~ N(0, 1)
expect_sigmoid(a, b) == FDiv(HermiteSum(a, b, 1, 0), SqrtPi)

\* ------------------------------------------------------------------------
\* Bounds of the model and constants of the script
\* ------------------------------------------------------------------------

\* most (id, probability) pairs found in the question catalog
MaxItems == 2
\* largest simulated population (the script's population_size is 200_000)
MaxPopulation == 3
\* executions of the script, one after the other
MaxRuns == 2

Seed == 4242
BisectionSteps == 80
NewtonSteps == 40

\* quantile_step = 0.1, held as the decimal num / den
QuantileStep == [num |-> 1, den |-> 10]

\* abs(step) < 1e-8, in units of the last place (rounded up)
StepTolerance == (One + 10^8 - 1) \div 10^8

\* the probability texts the catalog may hold: every one matches [0-9.]+
ProbabilityTexts ==
    { <<"0", ".", "5">>, <<"0", ".", "9">>, <<"0">>, <<"1">>,
      <<"1", ".", "5">>, <<"1", ".", "2", ".", "3">> }

\* date.today(): the day an execution happens on
Dates == {"day1", "day2"}

\* ------------------------------------------------------------------------
\* State
\* ------------------------------------------------------------------------
VARIABLES
    pc,               \* position in main / the function being executed
    err,              \* the exception that ended the execution, or "none"
    pairs,            \* re.findall result: <<[id, probability text]>>
    question_ids, probabilities, discriminations, difficulties,
    lo, hi, iter,     \* solve_difficulty: bracket and iterations done
    seed, population_size,
    rng,              \* random.Random: generator state and draws taken
    draws,            \* history: who consumed each draw of the stream
    theta, answers,   \* the respondent being simulated
    theta_hats,
    theta_map, trace, \* estimate_theta_map: theta and (grad, hess, step) per iteration
    result,           \* value returned by estimate_theta_map
    quantile_step, steps, quantiles, i, idx_lo, idx_hi,
    file,             \* OUT_PATH on disk
    writes,           \* writes of OUT_PATH by this execution
    run, prev         \* execution number; OUT_PATH as the previous execution left it

inVars == <<pairs, run, prev>>
calVars == <<question_ids, probabilities, discriminations, difficulties, lo, hi, iter>>
simVars == <<seed, population_size, rng, draws, theta, answers, theta_hats>>
estVars == <<theta_map, trace, result>>
quaVars == <<quantile_step, steps, quantiles, i, idx_lo, idx_hi>>
outVars == <<file, writes>>
vars == <<pc, err, inVars, calVars, simVars, estVars, quaVars, outVars>>

\* ------------------------------------------------------------------------
\* Library behaviour used by main
\* ------------------------------------------------------------------------

RECURSIVE DigitsValue(_, _)
DigitsValue(chars, acc) ==
    IF chars = <<>> THEN acc
    ELSE LET c == Head(chars)
             d == CASE c = "0" -> 0 [] c = "1" -> 1 [] c = "2" -> 2
                    [] c = "3" -> 3 [] c = "4" -> 4 [] c = "5" -> 5
                    [] c = "6" -> 6 [] c = "7" -> 7 [] c = "8" -> 8
                    [] c = "9" -> 9
         IN  DigitsValue(Tail(chars), 10 * acc + d)

\* float(text) for a text of digits and dots: a ValueError unless the text
\* has a digit and at most one dot
ParseFloat(text) ==
    LET dots == {k \in 1..Len(text) : text[k] = "."}
        digits == SelectSeq(text, LAMBDA c : c # ".")
    IN  IF Cardinality(dots) > 1 \/ digits = <<>>
        THEN [ok |-> FALSE, val |-> 0]
        ELSE LET decimals == IF dots = {} THEN 0
                             ELSE Len(text) - (CHOOSE k \in dots : TRUE)
             IN  [ok |-> TRUE, val |-> Dec(DigitsValue(digits, 0), 10^decimals)]

\* f"{v:.6f}": the value in millionths, rounded to nearest
Format6(v) == Sgn(v) * MulU(Abs(v), 10^6)

format_float_array(values) == [k \in 1..Len(values) |-> Format6(values[k])]

\* a generator whose stream also depends on which execution this is
Random_Ambient(s) == [x |-> ((s + run) % (2^16)) + 1, pos |-> 0]

\* random.Random(seed): a multiplicative congruential generator stands for
\* the Mersenne Twister; like it, the stream is a function of the seed alone
RngModulus == 2^16 + 1
Random(s) == [x |-> (s % (RngModulus - 1)) + 1, pos |-> 0]

\* rng.random(): the generator after the draw
RngNext(g) == [x |-> (75 * g.x) % RngModulus, pos |-> g.pos + 1]

\* the uniform value in [0, 1) the generator has just produced
RngValue(g) == (g.x - 1) * (One \div (RngModulus - 1))

RECURSIVE Insert(_, _)
Insert(sorted, v) ==
    IF sorted = <<>> THEN <<v>>
    ELSE IF v < Head(sorted) THEN <<v>> \o sorted
    ELSE <<Head(sorted)>> \o Insert(Tail(sorted), v)

\* list.sort(): ascending
RECURSIVE Sort(_)
Sort(values) ==
    IF values = <<>> THEN <<>>
    ELSE Insert(Sort(Tail(values)), Head(values))

\* int(round(num / den)): Python rounds halves to the even integer
RoundHalfEven(num, den) ==
    LET q == num \div den
        r == num % den
    IN  IF 2 * r > den \/ (2 * r = den /\ q % 2 = 1) THEN q + 1 ELSE q

\* ------------------------------------------------------------------------
\* Initial states
\* ------------------------------------------------------------------------

\* the catalogs re.findall may return: up to MaxItems pairs, ids q1, q2, ...
PairLists ==
    UNION { [1..n -> ProbabilityTexts] : n \in 0..MaxItems }

Catalog(texts) ==
    [k \in 1..Len(texts) |-> [id |-> k, probability |-> texts[k]]]

NoFile == [written |-> FALSE]
NoRng == [x |-> 0, pos |-> 0]

\* the state of a fresh process, before main runs
Fresh ==
    /\ err = "none"
    /\ question_ids = <<>> /\ probabilities = <<>>
    /\ discriminations = <<>> /\ difficulties = <<>>
    /\ lo = 0 /\ hi = 0 /\ iter = 0
    /\ seed = 0 /\ population_size = 0 /\ rng = NoRng /\ draws = <<>>
    /\ theta = 0 /\ answers = <<>> /\ theta_hats = <<>>
    /\ theta_map = 0 /\ trace = <<>> /\ result = 0
    /\ quantile_step = [num |-> 0, den |-> 1] /\ steps = 0 /\ quantiles = <<>>
    /\ i = 0 /\ idx_lo = 0 /\ idx_hi = 0
    /\ writes = 0

\* the first execution about to start, on one of the given catalogs
Start(lists) ==
    /\ pc = "main"
    /\ \E texts \in lists : pairs = Catalog(texts)
    /\ run = 1 /\ file = NoFile /\ prev = NoFile
    /\ Fresh

Init == Start(PairLists)

\* ------------------------------------------------------------------------
\* main: reading the catalog
\* ------------------------------------------------------------------------

\* an uncaught exception ends the execution
Raise(e) ==
    /\ pc' = "failed"
    /\ err' = e

\* FindPairs without the test of lines 147-148
FindPairs_Unchecked ==
    /\ pc = "main"
    /\ question_ids' = [k \in 1..Len(pairs) |-> pairs[k].id]
    /\ pc' = "probabilities"
    /\ UNCHANGED <<err, inVars, probabilities, discriminations, difficulties, lo, hi, iter,
                   simVars, estVars, quaVars, outVars>>

\* lines 142-150: no pair found is SystemExit
FindPairs ==
    /\ pc = "main"
    /\ IF pairs = <<>>
       THEN /\ Raise("SystemExit")
            /\ UNCHANGED question_ids
       ELSE /\ question_ids' = [k \in 1..Len(pairs) |-> pairs[k].id]
            /\ pc' = "probabilities"
            /\ err' = err
    /\ UNCHANGED <<inVars, probabilities, discriminations, difficulties, lo, hi, iter,
                   simVars, estVars, quaVars, outVars>>

\* line 151: probabilities = [float(p) for _, p in pairs]
ParseProbabilities ==
    /\ pc = "probabilities"
    /\ IF \E k \in 1..Len(pairs) : ~ParseFloat(pairs[k].probability).ok
       THEN /\ Raise("ValueError")
            /\ UNCHANGED probabilities
       ELSE /\ probabilities' =
                 [k \in 1..Len(pairs) |-> ParseFloat(pairs[k].probability).val]
            /\ pc' = "discriminations"
            /\ err' = err
    /\ UNCHANGED <<inVars, question_ids, discriminations, difficulties, lo, hi, iter,
                   simVars, estVars, quaVars, outVars>>

\* ------------------------------------------------------------------------
\* Item calibration
\* ------------------------------------------------------------------------

\* what logit(p) raises: 1.0 - p = 0 is a division by zero, a quotient
\* p / (1.0 - p) <= 0 is a math domain error of math.log
LogitError(p) ==
    IF One - p = 0 THEN "ZeroDivisionError"
    ELSE IF FDiv(p, One - p) <= 0 THEN "ValueError"
    ELSE "none"

\* clamp(0.75 + 0.5 * abs(logit(p)), 0.75, 2.25)
Discrimination(p) ==
    clamp(Dec(75, 100) + FMul(Dec(5, 10), Abs(logit(p))), Dec(75, 100), Dec(225, 100))

\* line 153, one item of the comprehension
DeriveDiscrimination ==
    /\ pc = "discriminations"
    /\ LET p == probabilities[Len(discriminations) + 1]
       IN  IF LogitError(p) # "none"
           THEN /\ Raise(LogitError(p))
                /\ UNCHANGED discriminations
           ELSE /\ discriminations' = Append(discriminations, Discrimination(p))
                /\ pc' = IF Len(discriminations) + 1 = Len(probabilities)
                         THEN "difficulties" ELSE "discriminations"
                /\ err' = err
    /\ UNCHANGED <<inVars, question_ids, probabilities, difficulties, lo, hi, iter,
                   simVars, estVars, quaVars, outVars>>

\* (lo + hi) / 2.0
Midpoint(l, h) == DivInt(l + h, 2)

\* line 154 calling solve_difficulty, line 95: lo, hi = -10.0, 10.0
SolveEnter ==
    /\ pc = "difficulties"
    /\ lo' = -Float(10)
    /\ hi' = Float(10)
    /\ iter' = 0
    /\ pc' = "bisect"
    /\ UNCHANGED <<err, inVars, question_ids, probabilities, discriminations,
                   difficulties, simVars, estVars, quaVars, outVars>>

\* the pass of lines 96-102 with the test of line 99 the other way round
BisectStep_Reversed(p, a, l, h) ==
    LET mid == Midpoint(l, h)
        val == expect_sigmoid(a, mid)
    IN  IF val > p THEN <<l, mid>> ELSE <<mid, h>>

\* the bracket after one pass of the loop of lines 96-102
BisectStep(p, a, l, h) ==
    LET mid == Midpoint(l, h)
        val == expect_sigmoid(a, mid)
    IN  IF val > p THEN <<mid, h>> ELSE <<l, mid>>

Bisect ==
    /\ pc = "bisect"
    /\ iter < BisectionSteps
    /\ LET k == Len(difficulties) + 1
           next == BisectStep(probabilities[k], discriminations[k], lo, hi)
       IN  /\ lo' = next[1]
           /\ hi' = next[2]
    /\ iter' = iter + 1
    /\ UNCHANGED <<pc, err, inVars, question_ids, probabilities, discriminations,
                   difficulties, simVars, estVars, quaVars, outVars>>

\* line 103: return (lo + hi) / 2.0, collected by line 154
SolveReturn ==
    /\ pc = "bisect"
    /\ iter = BisectionSteps
    /\ difficulties' = Append(difficulties, Midpoint(lo, hi))
    /\ pc' = IF Len(difficulties) + 1 = Len(probabilities)
             THEN "simulation" ELSE "difficulties"
    /\ UNCHANGED <<err, inVars, question_ids, probabilities, discriminations,
                   lo, hi, iter, simVars, estVars, quaVars, outVars>>

\* ------------------------------------------------------------------------
\* Population simulation
\* ------------------------------------------------------------------------

\* lines 157-160.  population_size is 200_000 in the script; the model
\* takes a size up to MaxPopulation, the same in every execution.
StartSimulation ==
    /\ pc = "simulation"
    /\ seed' = Seed
    /\ \E size \in 1..MaxPopulation :
          /\ prev.written => size = prev.populationSize
          /\ population_size' = size
    /\ rng' = Random(Seed)
    /\ theta_hats' = <<>>
    /\ pc' = "randn"
    /\ UNCHANGED <<err, inVars, calVars, draws, theta, answers, estVars, quaVars, outVars>>

\* math.sqrt(-2.0 * math.log(u1)) * math.cos(2.0 * math.pi * u2)
BoxMuller(u1, u2) == FMul(Sqrt(-2 * Ln(u1)), Cos(FMul(2 * Pi, u2)))

\* randn taking one draw and using it for u1 and u2
Randn_OneDraw ==
    /\ pc = "randn"
    /\ LET g1 == RngNext(rng)
           n == Len(theta_hats) + 1
       IN  /\ rng' = g1
           /\ draws' = Append(draws, [respondent |-> n, use |-> "u1", item |-> 0])
           /\ IF RngValue(g1) = 0
              THEN /\ Raise("ValueError")
                   /\ UNCHANGED theta
              ELSE /\ theta' = BoxMuller(RngValue(g1), RngValue(g1))
                   /\ pc' = "answers"
                   /\ err' = err
    /\ answers' = <<>>
    /\ UNCHANGED <<inVars, calVars, seed, population_size, theta_hats,
                   estVars, quaVars, outVars>>

\* line 163, randn (lines 126-130): u1 is drawn, then u2; math.log(0.0) is
\* a math domain error
Randn ==
    /\ pc = "randn"
    /\ LET g1 == RngNext(rng)
           g2 == RngNext(g1)
           n == Len(theta_hats) + 1
       IN  /\ rng' = g2
           /\ draws' = draws \o <<[respondent |-> n, use |-> "u1", item |-> 0],
                                  [respondent |-> n, use |-> "u2", item |-> 0]>>
           /\ IF RngValue(g1) = 0
              THEN /\ Raise("ValueError")
                   /\ UNCHANGED theta
              ELSE /\ theta' = BoxMuller(RngValue(g1), RngValue(g2))
                   /\ pc' = "answers"
                   /\ err' = err
    /\ answers' = <<>>
    /\ UNCHANGED <<inVars, calVars, seed, population_size, theta_hats,
                   estVars, quaVars, outVars>>

\* lines 164-167, one item of the comprehension:
\* rng.random() < sigmoid(a * (theta - b))
DrawAnswer ==
    /\ pc = "answers"
    /\ LET k == Len(answers) + 1
           g == RngNext(rng)
           n == Len(theta_hats) + 1
       IN  /\ rng' = g
           /\ draws' = Append(draws, [respondent |-> n, use |-> "answer", item |-> k])
           /\ answers' = Append(answers,
                  RngValue(g) < sigmoid(FMul(discriminations[k], theta - difficulties[k])))
           /\ pc' = IF k = Len(difficulties) THEN "estimate" ELSE "answers"
    /\ UNCHANGED <<err, inVars, calVars, seed, population_size, theta, theta_hats,
                   estVars, quaVars, outVars>>

\* ------------------------------------------------------------------------
\* estimate_theta_map
\* ------------------------------------------------------------------------

\* lines 109-111
EstimateEnter ==
    /\ pc = "estimate"
    /\ trace' = <<>>
    /\ IF answers = <<>>
       THEN /\ result' = 0
            /\ pc' = "estimated"
            /\ UNCHANGED theta_map
       ELSE /\ theta_map' = 0
            /\ pc' = "newton"
            /\ UNCHANGED result
    /\ UNCHANGED <<err, inVars, calVars, simVars, quaVars, outVars>>

\* grad and hess before the items are added (lines 113-114)
GradHessStart(th) == [grad |-> -th, hess |-> -One]

\* an item's contribution with the sign of line 118 lost
GradHessItem_Convex(acc, th, y, b, a) ==
    LET p == sigmoid(FMul(a, th - b))
    IN  [grad |-> acc.grad + FMul(a, (IF y THEN One ELSE 0) - p),
         hess |-> acc.hess + FMul(FMul(FMul(a, a), p), One - p)]

\* one item's contribution (lines 116-118)
GradHessItem(acc, th, y, b, a) ==
    LET p == sigmoid(FMul(a, th - b))
    IN  [grad |-> acc.grad + FMul(a, (IF y THEN One ELSE 0) - p),
         hess |-> acc.hess + FMul(FMul(-FMul(a, a), p), One - p)]

\* the loop of line 115 over zip(answers, difficulties, discriminations)
RECURSIVE GradHess(_, _, _, _, _, _)
GradHess(acc, th, ys, bs, as, k) ==
    IF k > Min(Len(ys), Min(Len(bs), Len(as))) THEN acc
    ELSE GradHess(GradHessItem(acc, th, ys[k], bs[k], as[k]), th, ys, bs, as, k + 1)

LastStep == trace[Len(trace)].step

\* line 121: the pass just made ended with abs(step) < 1e-8
Converged == IF trace = <<>> THEN FALSE ELSE Abs(LastStep) < StepTolerance

\* one pass of the loop of lines 112-122; grad / hess with hess = 0 is a
\* ZeroDivisionError
NewtonIter ==
    /\ pc = "newton"
    /\ Len(trace) < NewtonSteps
    /\ ~Converged
    /\ LET gh == GradHess(GradHessStart(theta_map), theta_map,
                          answers, difficulties, discriminations, 1)
       IN  IF gh.hess = 0
           THEN /\ Raise("ZeroDivisionError")
                /\ trace' = Append(trace, [grad |-> gh.grad, hess |-> gh.hess, step |-> 0])
                /\ UNCHANGED theta_map
           ELSE LET step == FDiv(gh.grad, gh.hess)
                IN  /\ theta_map' = theta_map - step
                    /\ trace' = Append(trace,
                           [grad |-> gh.grad, hess |-> gh.hess, step |-> step])
                    /\ UNCHANGED <<pc, err>>
    /\ UNCHANGED <<inVars, calVars, simVars, result, quaVars, outVars>>

\* line 123, after the break of line 122 or the 40th pass
EstimateReturn ==
    /\ pc = "newton"
    /\ IF Len(trace) = NewtonSteps THEN TRUE ELSE Converged
    /\ result' = theta_map
    /\ pc' = "estimated"
    /\ UNCHANGED <<err, inVars, calVars, simVars, theta_map, trace, quaVars, outVars>>

\* line 168: theta_hats.append(...), and the loop test of line 162
AppendEstimate ==
    /\ pc = "estimated"
    /\ theta_hats' = Append(theta_hats, result)
    /\ pc' = IF Len(theta_hats) + 1 = population_size THEN "sort" ELSE "randn"
    /\ UNCHANGED <<err, inVars, calVars, seed, population_size, rng, draws, theta,
                   answers, estVars, quaVars, outVars>>

\* ------------------------------------------------------------------------
\* Quantile table
\* ------------------------------------------------------------------------

\* lines 170-175: sort, quantile_step, steps = int(round(100 / quantile_step))
SortEstimates(step) ==
    /\ pc = "sort"
    /\ theta_hats' = Sort(theta_hats)
    /\ quantile_step' = step
    /\ steps' = RoundHalfEven(100 * step.den, step.num)
    /\ quantiles' = <<>>
    /\ i' = 0
    /\ pc' = "quantiles"
    /\ UNCHANGED <<err, inVars, calVars, seed, population_size, rng, draws, theta,
                   answers, estVars, idx_lo, idx_hi, outVars>>

\* the index scaled by population_size rather than population_size - 1
Idx_PastEnd(k, step, size) == [num |-> k * step.num * size, den |-> step.den * 100]

\* idx = (i * quantile_step / 100.0) * (population_size - 1) as the exact
\* fraction num / den
Idx(k, step, size) == [num |-> k * step.num * (size - 1), den |-> step.den * 100]

Floor(q) == q.num \div q.den
Ceil(q) == -((-q.num) \div q.den)

\* lines 181-185: the order statistic, or the interpolation between two
Interpolate(values, idx) ==
    LET l == Floor(idx)
        h == Ceil(idx)
    IN  IF l = h THEN values[l + 1]
        ELSE LET frac == Dec(idx.num % idx.den, idx.den)
             IN  FMul(values[l + 1], One - frac) + FMul(values[h + 1], frac)

\* the entries of the table for percentiles 0 .. n-1 steps
Table(values, step, size, n) ==
    [k \in 1..n |-> Interpolate(values, Idx(k - 1, step, size))]

\* the passes of the loop of lines 176-186 whose index is past the end of
\* theta_hats: an IndexError
OutOfRange(values, step, size, last) ==
    {k \in 0..last : Ceil(Idx(k, step, size)) > Len(values) - 1}

SetMin(S) == CHOOSE x \in S : \A y \in S : x <= y

\* the loop of lines 176-186: it ends at the first IndexError, or with the
\* table complete
BuildQuantiles ==
    /\ pc = "quantiles"
    /\ LET bad == OutOfRange(theta_hats, quantile_step, population_size, steps)
           last == IF bad = {} THEN steps ELSE SetMin(bad)
           idx == Idx(last, quantile_step, population_size)
       IN  /\ i' = last
           /\ idx_lo' = Floor(idx)
           /\ idx_hi' = Ceil(idx)
           /\ IF bad # {}
              THEN /\ Raise("IndexError")
                   /\ quantiles' = Table(theta_hats, quantile_step, population_size, last)
              ELSE /\ quantiles' = Table(theta_hats, quantile_step, population_size, steps + 1)
                   /\ pc' = "write"
                   /\ err' = err
    /\ UNCHANGED <<inVars, calVars, simVars, estVars, quantile_step, steps, outVars>>

\* ------------------------------------------------------------------------
\* Output
\* ------------------------------------------------------------------------

\* lines 188-205: the text written to OUT_PATH
Output(today) ==
    [written |-> TRUE,
     generatedAt |-> today,
     seed |-> seed,
     populationSize |-> population_size,
     quantileStep |-> quantile_step,
     questionIds |-> question_ids,
     probabilities |-> format_float_array(probabilities),
     discriminations |-> format_float_array(discriminations),
     difficulties |-> format_float_array(difficulties),
     thetaQuantiles |-> format_float_array(quantiles)]

\* the write placed before the loop of lines 176-186 as well
WriteOutput_Early ==
    /\ pc \in {"quantiles", "write"}
    /\ \E today \in Dates : file' = Output(today)
    /\ writes' = writes + 1
    /\ pc' = IF pc = "write" THEN "done" ELSE pc
    /\ UNCHANGED <<err, inVars, calVars, simVars, estVars, quaVars>>

WriteOutput ==
    /\ pc = "write"
    /\ \E today \in Dates : file' = Output(today)
    /\ writes' = writes + 1
    /\ pc' = "done"
    /\ UNCHANGED <<err, inVars, calVars, simVars, estVars, quaVars>>

\* lines 209-210: the script is executed again, on the same catalog
Rerun ==
    /\ pc = "done"
    /\ run < MaxRuns
    /\ run' = run + 1
    /\ prev' = file
    /\ pc' = "main"
    /\ err' = "none"
    /\ question_ids' = <<>> /\ probabilities' = <<>>
    /\ discriminations' = <<>> /\ difficulties' = <<>>
    /\ lo' = 0 /\ hi' = 0 /\ iter' = 0
    /\ seed' = 0 /\ population_size' = 0 /\ rng' = NoRng /\ draws' = <<>>
    /\ theta' = 0 /\ answers' = <<>> /\ theta_hats' = <<>>
    /\ theta_map' = 0 /\ trace' = <<>> /\ result' = 0
    /\ quantile_step' = [num |-> 0, den |-> 1] /\ steps' = 0 /\ quantiles' = <<>>
    /\ i' = 0 /\ idx_lo' = 0 /\ idx_hi' = 0
    /\ writes' = 0
    /\ UNCHANGED <<pairs, file>>

\* ------------------------------------------------------------------------
\* Specifications
\* ------------------------------------------------------------------------

Calibrate ==
    \/ FindPairs
    \/ ParseProbabilities
    \/ DeriveDiscrimination
    \/ SolveEnter
    \/ Bisect
    \/ SolveReturn

Estimate ==
    \/ EstimateEnter
    \/ NewtonIter
    \/ EstimateReturn

Simulate ==
    \/ StartSimulation
    \/ Randn
    \/ DrawAnswer
    \/ Estimate
    \/ AppendEstimate

Next ==
    \/ Calibrate
    \/ Simulate
    \/ SortEstimates(QuantileStep)
    \/ BuildQuantiles
    \/ WriteOutput

\* one execution of the script, on any catalog
Spec == Init /\ [][Next]_vars

\* the script executed MaxRuns times on the same catalog
RerunLists == { <<<<"0", ".", "5">>>>, <<<<"0", ".", "9">>, <<"0", ".", "5">>>> }
InitRerun == Start(RerunLists)
NextRerun == Next \/ Rerun
SpecRerun == InitRerun /\ [][NextRerun]_vars

\* one execution with line 173 set to another quantile_step
StepChoices ==
    { QuantileStep, [num |-> 15, den |-> 100], [num |-> 25, den |-> 1],
      [num |-> 40, den |-> 1], [num |-> 60, den |-> 1] }
StepLists == { <<<<"0", ".", "5">>>> }
InitStep == Start(StepLists)
NextStep ==
    \/ Calibrate
    \/ Simulate
    \/ \E step \in StepChoices : SortEstimates(step)
    \/ BuildQuantiles
    \/ WriteOutput
SpecStep == InitStep /\ [][NextStep]_vars

\* the item calibrator alone, on one target probability
CalibTexts ==
    { <<"0", ".", "0", "1">>, <<"0", ".", "1">>, <<"0", ".", "3">>,
      <<"0", ".", "5">>, <<"0", ".", "7">>, <<"0", ".", "9">>,
      <<"0", ".", "9", "9">> }
InitCalib == Start({ <<t>> : t \in CalibTexts })
SpecCalib == InitCalib /\ [][Calibrate]_vars

\* estimate_theta_map alone, on any response pattern and item arrays of up
\* to MaxItems items
ItemChoices ==
    { [a |-> Dec(75, 100), b |-> 0],
      [a |-> Dec(185, 100), b |-> -Dec(177, 100)],
      [a |-> Dec(225, 100), b |-> Float(10)],
      [a |-> Dec(225, 100), b |-> -Float(10)] }
InitEstimate ==
    /\ pc = "estimate"
    /\ pairs = <<>>
    /\ run = 1 /\ file = NoFile /\ prev = NoFile
    /\ err = "none"
    /\ question_ids = <<>> /\ probabilities = <<>>
    /\ \E n \in 0..MaxItems : \E items \in [1..n -> ItemChoices] :
          /\ discriminations = [k \in 1..n |-> items[k].a]
          /\ difficulties = [k \in 1..n |-> items[k].b]
    /\ \E n \in 0..MaxItems : answers \in [1..n -> BOOLEAN]
    /\ lo = 0 /\ hi = 0 /\ iter = 0
    /\ seed = 0 /\ population_size = 0 /\ rng = NoRng /\ draws = <<>>
    /\ theta = 0 /\ theta_hats = <<>>
    /\ theta_map = 0 /\ trace = <<>> /\ result = 0
    /\ quantile_step = [num |-> 0, den |-> 1] /\ steps = 0 /\ quantiles = <<>>
    /\ i = 0 /\ idx_lo = 0 /\ idx_hi = 0
    /\ writes = 0
SpecEstimate == InitEstimate /\ [][Estimate]_vars

\* ------------------------------------------------------------------------
\* Properties
\* ------------------------------------------------------------------------

\* nothing of calibration, simulation or output has happened
NothingDone ==
    /\ discriminations = <<>> /\ difficulties = <<>>
    /\ rng.pos = 0 /\ draws = <<>> /\ theta_hats = <<>>
    /\ quantiles = <<>>
    /\ writes = 0 /\ ~file.written

\* C1: on an empty catalog main ends with SystemExit (the configuration
\* error) straight from its first step: no discrimination or difficulty is
\* computed, no draw is taken and nothing is written.
C1_EmptyCatalogFails ==
    pairs = <<>> =>
        /\ pc \in {"main", "failed"}
        /\ pc = "failed" => err = "SystemExit"
        /\ NothingDone

C1_Witness == pairs = <<>> /\ pc = "failed" /\ err = "SystemExit"

\* every probability of the catalog is a number, and one of them is outside
\* the open interval (0, 1)
OutsideUnitInterval ==
    /\ \A k \in 1..Len(pairs) : ParseFloat(pairs[k].probability).ok
    /\ \E k \in 1..Len(pairs) :
          LET f == ParseFloat(pairs[k].probability)
          IN  f.val <= 0 \/ f.val >= One

\* C2: a target probability p <= 0 or p >= 1 is rejected as a configuration
\* error before calibration starts: main gets no further than the start of
\* line 153 and ends with SystemExit; no discrimination is derived,
\* solve_difficulty is not called, nobody is simulated, nothing is written.
C2_RejectedBeforeCalibration ==
    OutsideUnitInterval =>
        /\ pc \in {"main", "probabilities", "discriminations", "failed"}
        /\ pc = "failed" => err = "SystemExit"
        /\ NothingDone

\* C3: the output is written at most once per execution, and only with
\* every item calibrated, all respondents simulated and estimated and the
\* whole table built; an execution that failed has written nothing.
C3_WriteOnlyWhenComplete ==
    /\ writes \in {0, 1}
    /\ writes = 0 => file = prev
    /\ pc = "failed" => writes = 0
    /\ writes = 1 =>
          /\ pc = "done" /\ err = "none"
          /\ Len(discriminations) = Len(pairs)
          /\ Len(difficulties) = Len(pairs)
          /\ Len(theta_hats) = population_size
          /\ rng.pos = population_size * (Len(pairs) + 2)
          /\ Len(quantiles) = steps + 1
          /\ file = Output(file.generatedAt)

C3_Witness == pc = "done" /\ writes = 1 /\ file.written /\ Len(pairs) = 2

\* the use the k-th draw of the stream is put to: per respondent u1, u2,
\* then one answer per item in catalog order
ExpectedDraw(k) ==
    LET per == Len(pairs) + 2
        j == (k - 1) % per
    IN  [respondent |-> (k - 1) \div per + 1,
         use |-> IF j = 0 THEN "u1" ELSE IF j = 1 THEN "u2" ELSE "answer",
         item |-> IF j < 2 THEN 0 ELSE j - 1]

\* C4: the stream is consumed respondent by respondent, u1 then u2 then one
\* draw per item in catalog order; calibration, MAP estimation and the
\* quantile table take no draw.
C4_StreamOrder ==
    /\ rng.pos = Len(draws)
    /\ \A k \in 1..Len(draws) : draws[k] = ExpectedDraw(k)
    /\ pc \in {"main", "probabilities", "discriminations", "difficulties",
               "bisect", "simulation"} => draws = <<>>
    /\ pc \in {"estimate", "newton", "estimated"} =>
          Len(draws) = (Len(theta_hats) + 1) * (Len(pairs) + 2)
    /\ pc \in {"sort", "quantiles", "write", "done"} =>
          Len(draws) = population_size * (Len(pairs) + 2)

C4_Witness ==
    /\ pc = "done" /\ population_size = 3 /\ Len(pairs) = 2
    /\ Len(draws) = 12

\* what an output says apart from its date stamp
Parameters(f) == [f EXCEPT !.generatedAt = "any"]

\* C5: a second execution with the same seed, population size, catalog and
\* quantile step writes the same item parameters and quantile table.
C5_Deterministic ==
    (run > 1 /\ pc = "done") => Parameters(file) = Parameters(prev)

C5_Witness ==
    /\ run = 2 /\ pc = "done" /\ population_size = 3 /\ Len(pairs) = 2
    /\ file.generatedAt # prev.generatedAt

C7_Monotone ==
    \A k \in 1..(Len(quantiles) - 1) : quantiles[k] <= quantiles[k + 1]

SeqMin(values) == CHOOSE v \in {values[k] : k \in 1..Len(values)} :
                      \A k \in 1..Len(values) : v <= values[k]
SeqMax(values) == CHOOSE v \in {values[k] : k \in 1..Len(values)} :
                      \A k \in 1..Len(values) : v >= values[k]

\* C8: the first entry is the smallest estimate, the last entry the
\* largest, and every index floor(idx), ceil(idx) is within 0 .. N-1.
C8_Boundaries ==
    /\ err # "IndexError"
    /\ pc \in {"write", "done"} =>
          /\ quantiles[1] = SeqMin(theta_hats)
          /\ quantiles[Len(quantiles)] = SeqMax(theta_hats)
          /\ \A k \in 0..steps :
                LET idx == Idx(k, quantile_step, population_size)
                IN  0 <= Floor(idx) /\ Ceil(idx) <= population_size - 1

C8_Witness ==
    /\ pc = "done" /\ population_size = 3
    /\ quantiles[1] < quantiles[Len(quantiles)]

\* 1e-6 in units of the last place (rounded down)
RoundTripTolerance == One \div 10^6

\* C9: the calibrated difficulty b of every item reproduces its target
\* probability: |expect_sigmoid(a, b) - p| < 1e-6.
C9_RoundTrip ==
    \A k \in 1..Len(difficulties) :
        /\ discriminations[k] = Discrimination(probabilities[k])
        /\ Abs(expect_sigmoid(discriminations[k], difficulties[k]) - probabilities[k])
              <= RoundTripTolerance

C9_Witness ==
    /\ Len(difficulties) = 1
    /\ probabilities[1] = Dec(99, 100)
    /\ difficulties[1] < -Float(2)

====
